---- MODULE Spec2Model ----
(***************************************************************************)
(* Model of the fractal session of mikecv/pattern: the Fractal struct      *)
(* (src/src/fractals.rs) and the HTTP handlers that drive it               *)
(* (src/src/main.rs).                                                      *)
(*                                                                         *)
(* Numbers.  Complex coordinates are f64 in the source.  The model keeps   *)
(* them as exact fixed-point values: a coordinate x is the integer x*Scale.*)
(* The iterate z of z <- z*z + c is kept as an exact fraction <<a, b, d>>  *)
(* meaning (a + b i)/d.  The two logarithms of the smoothing term are      *)
(* replaced by comparisons of |z|^2 with e^2, e^4, e^8, e^16, which give   *)
(* the integer part of log2(ln|z|) exactly.  Palette positions (f32) are   *)
(* multiples of 1/RelDen, which f32 represents exactly.                    *)
(***************************************************************************)
EXTENDS Integers, Sequences, FiniteSets, TLC

\* ---------------------------------------------------------------- bounds
MaxRows == 0
MaxCols == 1
MaxIts == 1
MaxRenders == 2
MaxWorkers == 2

\* ------------------------------------------------------ program constants
Scale == 4
RelDen == 4
FracDen == 65536

\* settings.yml defaults (Settings struct); coordinates in units of 1/Scale
init_rows == 2
init_cols == 2
init_mid_pt == <<0, 0>>
init_pt_div == 8
init_max_its == 3
def_palette == "default.toml"

Missing == "missing"
Malformed == "malformed"

Black == <<0, 0, 0>>

\* Contents a palette file can have: the entries (rel_index in 1/RelDen, color).
\* The stored `index` field of the file is overwritten on load, the comment
\* is never read.
PaletteDefs ==
  [ p1 |-> << [rel |-> 0, color |-> <<255, 0, 0>>],
              [rel |-> 2, color |-> <<0, 255, 0>>],
              [rel |-> 4, color |-> <<0, 0, 255>>] >>,
    p2 |-> << [rel |-> 0, color |-> <<0, 0, 0>>],
              [rel |-> 4, color |-> <<255, 255, 255>>] >> ]

PaletteIds == DOMAIN PaletteDefs
PaletteNames == {def_palette}

\* Files a /palette request can carry: <<filename, content>>.
Uploads == { <<def_palette, "p2">>, <<def_palette, Malformed>> }

\* Centres a request can carry (value3/value4, new_centre_re/im), in 1/Scale.
CentreInputs == { <<240, 0>> }
\* Anchor hints a /recentre request can carry (centre_row, centre_col).
HintInputs == { 0, 1 }
\* Pixel pitches a request can carry (value5), in 1/Scale.  Pitches are
\* even, so that (cols / 2.0) * pt_div stays a whole number of 1/Scale.
PitchInputs == { 8 }

\* ------------------------------------------------------------ arithmetic
Max(a, b) == IF a >= b THEN a ELSE b

RECURSIVE SumSeq(_)
SumSeq(s) == IF s = << >> THEN 0 ELSE Head(s) + SumSeq(Tail(s))

\* e^(2^j) for j = 1..4: integer part and floor(fraction * FracDen).
ExpInt   == << 7, 54, 2980, 8886110 >>
ExpFrac  == << 25497, 39200, 62782, 34112 >>

\* n/d2 > e^(2^j), for d2 a divisor of FracDen.
ExceedsExp(n, d2, j) ==
  LET q == n \div d2
      r == n % d2
  IN  \/ q > ExpInt[j]
      \/ q = ExpInt[j] /\ r > ExpFrac[j] \div (FracDen \div d2)

\* ------------------------------------------------- escape-time per pixel
\* px_fn = (px_fn * px_fn) + pt_row, on exact fractions.
IterStep(z, c) ==
  IF z[3] = 1
    THEN << z[1] * z[1] - z[2] * z[2] + c[1], 2 * z[1] * z[2] + c[2], Scale >>
    ELSE LET d2 == z[3] * z[3]
         IN  << z[1] * z[1] - z[2] * z[2] + c[1] * (d2 \div Scale),
                2 * z[1] * z[2] + c[2] * (d2 \div Scale),
                d2 >>

NormSq(z) == z[1] * z[1] + z[2] * z[2]

\* px_fn.norm() >= 2.0
NormGe2(z) == NormSq(z) >= 4 * z[3] * z[3]

\* The while loop of cal_row_divergence: state <<px_fn, num_its, diverges>>.
RECURSIVE EscapeLoop(_, _, _, _, _)
EscapeLoop(z, num_its, diverges, c, maxits) ==
  IF ~diverges /\ num_its < maxits
    THEN LET z1 == IterStep(z, c)
         IN  IF NormGe2(z1)
               THEN EscapeLoop(z1, num_its, TRUE, c, maxits)
               ELSE EscapeLoop(z1, num_its + 1, FALSE, c, maxits)
    ELSE [px_fn |-> z, num_its |-> num_its]

\* mu_log = ln(ln(mod_fn)) / LN_2 when mod_fn > e, else 0.0.  The value is
\* kept as [fl, frac]: fl its integer part, frac whether a non-zero
\* fractional part follows (e^(2^k) is never hit by a fraction).
MuLog(z) ==
  LET n  == NormSq(z)
      d2 == z[3] * z[3]
  IN  IF ExceedsExp(n, d2, 1)
        THEN [fl |-> Cardinality({ j \in 2..4 : ExceedsExp(n, d2, j) }),
              frac |-> TRUE]
        ELSE [fl |-> 0, frac |-> FALSE]

\* mu = num_its as f64 + 1.0 - mu_log
MuOf(num_its, mulog) ==
  IF mulog.frac
    THEN [fl |-> num_its + 1 - mulog.fl - 1, frac |-> TRUE]
    ELSE [fl |-> num_its + 1 - mulog.fl, frac |-> FALSE]

\* if mu > max_its { mu = max_its }
ClampMuNoLimit(mu, maxits) == mu

ClampMu(mu, maxits) ==
  IF mu.fl > maxits \/ (mu.fl = maxits /\ mu.frac)
    THEN [fl |-> maxits, frac |-> FALSE]
    ELSE mu

\* mu as u32: truncation towards zero, saturating at 0 for negatives.
AsU32(mu) == IF mu.fl < 0 THEN 0 ELSE mu.fl

\* Value stored for the pixel at point c.
PixelDivergence(c, maxits) ==
  LET st == EscapeLoop(<<0, 0, 1>>, 1, FALSE, c, maxits)
  IN  AsU32(ClampMu(MuOf(st.num_its, MuLog(st.px_fn)), maxits))

\* cal_row_divergence: row_data for the row starting at st_c.
cal_row_divergence_wide(st_c, ncols, pitch, maxits) ==
  [col \in 0..ncols |->
     PixelDivergence(<<st_c[1] + col * pitch, st_c[2]>>, maxits)]

cal_row_divergence(st_c, ncols, pitch, maxits) ==
  [col \in 0..(ncols - 1) |->
     PixelDivergence(<<st_c[1] + col * pitch, st_c[2]>>, maxits)]

\* st_c of a row: pt_lt with im lowered by pt_div * row.
RowStart(ptlt, pitch, row) == << ptlt[1], ptlt[2] - pitch * row >>

\* vec![vec![0; cols]; rows]
ZeroGrid(nrows, ncols) ==
  [r \in 0..(nrows - 1) |-> [c \in 0..(ncols - 1) |-> 0]]

\* ---------------------------------------------------------------- palette
\* (rel_index * max_its as f32) as u32: truncation.
ScaleBound(rel, maxits) == (rel * maxits) \div RelDen

\* The palette vector after init_col_pallete read definition def.
ScaledPalette(def, maxits) ==
  [i \in 1..Len(def) |->
     [rel |-> def[i].rel, bound |-> ScaleBound(def[i].rel, maxits),
      color |-> def[i].color]]

\* One channel of the interpolation, truncated by `as u8`.
Lerp(its, lb, ub, lc, uc) ==
  ((ub - its) * lc + (its - lb) * uc) \div (ub - lb)

\* First pair index i (1-based) with bound[i] < its <= bound[i+1], or 0.
RECURSIVE FirstPairHalfOpenBelow(_, _, _)
FirstPairHalfOpenBelow(its, pal, i) ==
  IF i >= Len(pal) THEN 0
  ELSE IF its >= pal[i].bound /\ its < pal[i + 1].bound THEN i
  ELSE FirstPairHalfOpenBelow(its, pal, i + 1)

RECURSIVE FirstPair(_, _, _)
FirstPair(its, pal, i) ==
  IF i >= Len(pal) THEN 0
  ELSE IF its > pal[i].bound /\ its <= pal[i + 1].bound THEN i
  ELSE FirstPair(its, pal, i + 1)

\* det_px_col for a non-empty palette (len() - 1 underflows on an empty one).
det_px_col(its, pal) ==
  LET i == FirstPair(its, pal, 1)
  IN  IF i > 0
        THEN LET lo == pal[i]
                 up == pal[i + 1]
             IN  << Lerp(its, lo.bound, up.bound, lo.color[1], up.color[1]),
                    Lerp(its, lo.bound, up.bound, lo.color[2], up.color[2]),
                    Lerp(its, lo.bound, up.bound, lo.color[3], up.color[3]) >>
        ELSE IF its > pal[Len(pal)].bound
          THEN pal[Len(pal)].color
          ELSE Black

\* -------------------------------------------------------------- viewport
\* init_fractal_limits: pt_lt = (left_lim, top_lim).
init_fractal_limits_int_div(mid, nrows, ncols, pitch) ==
  << mid[1] - (ncols \div 2) * pitch, mid[2] + (nrows \div 2) * pitch >>

init_fractal_limits(mid, nrows, ncols, pitch) ==
  << mid[1] - (ncols * pitch) \div 2, mid[2] + (nrows * pitch) \div 2 >>

\* Option<T>: Some(x) is <<x>>, None is << >>.
Some(x) == << x >>
UnwrapOr(o, d) == IF o = << >> THEN d ELSE o[1]
OptionOf(S) == { << >> } \cup { Some(x) : x \in S }

\* -------------------------------------------------------------- histogram
Cells(nrows, ncols) == (0..(nrows - 1)) \X (0..(ncols - 1))

\* divergence_histogram: (its, its_cnt) for its in 0..max_its.
divergence_histogram_upto(grid, nrows, ncols, maxits) ==
  [ valid  |-> TRUE,
    bins   |-> [i \in 1..(maxits + 1) |-> i - 1],
    counts |-> [i \in 1..(maxits + 1) |->
                  Cardinality({ xy \in Cells(nrows, ncols) :
                                  grid[xy[1]][xy[2]] = i - 1 })] ]

divergence_histogram(grid, nrows, ncols, maxits) ==
  [ valid  |-> TRUE,
    bins   |-> [i \in 1..maxits |-> i - 1],
    counts |-> [i \in 1..maxits |->
                  Cardinality({ xy \in Cells(nrows, ncols) :
                                  grid[xy[1]][xy[2]] = i - 1 })] ]

NoHistogram == [valid |-> FALSE, bins |-> << >>, counts |-> << >>]

\* ----------------------------------------------------------------- render
\* Values of the setting fractal_filename, as sequences of characters.
RawNames == { << "f", ".", "p" >>, << "f" >>,
              << "a", ".", "b", ".", "p" >>, << ".", "p" >> }

\* raw_filename.rfind('.'): index of the last '.', 0 for None.
RFindDot(raw) ==
  LET dots == { i \in DOMAIN raw : raw[i] = "." }
  IN  IF dots = {} THEN 0 ELSE CHOOSE i \in dots : \A j \in dots : j <= i

\* extension: from the last '.' on (the dot included), "" without a dot.
Extension(raw) ==
  IF RFindDot(raw) = 0 THEN << >> ELSE SubSeq(raw, RFindDot(raw), Len(raw))

\* base_filename: what is before the last '.', the whole name without one.
BaseFilename(raw) ==
  IF RFindDot(raw) = 0 THEN raw ELSE SubSeq(raw, 1, RFindDot(raw) - 1)

Digit(d) == << "0", "1", "2", "3", "4", "5", "6", "7", "8", "9" >>[d + 1]

\* Display of an integer: its decimal digits.
RECURSIVE Decimal(_)
Decimal(n) ==
  IF n < 10 THEN << Digit(n) >>
  ELSE Append(Decimal(n \div 10), Digit(n % 10))

\* {:03}: the decimal digits, filled with zeros on the left up to width 3.
Pad03(n) ==
  LET d == Decimal(n)
  IN  IF Len(d) >= 3 THEN d ELSE [i \in 1..(3 - Len(d)) |-> "0"] \o d

\* format!("{}-{:03}{}", base_filename, suffix, extension)
FormatName(raw, suffix) ==
  BaseFilename(raw) \o << "-" >> \o Pad03(suffix) \o Extension(raw)

\* The filename loop of render_image: first suffix >= n with no file.  The
\* folder is kept as the set of the suffixes of the files present: for one
\* fractal_filename the formatted names and the suffixes correspond one to
\* one.
ProbeSuffixNoCheck(n, fs) == n

ProbeSuffixFromCount(n, fs) ==
  LET RECURSIVE Up(_)
      Up(k) == IF k \notin fs THEN k ELSE Up(k + 1)
  IN  Up(n + Cardinality(fs))

RECURSIVE ProbeSuffix(_, _)
ProbeSuffix(n, fs) == IF n \notin fs THEN n ELSE ProbeSuffix(n + 1, fs)

\* The pixel buffer loop of render_image.
PixelBuffer(grid, pal, nrows, ncols) ==
  [y \in 0..(nrows - 1) |->
     [x \in 0..(ncols - 1) |-> det_px_col(grid[y][x], pal)]]

\* det_px_col is entered with an empty palette: col_pal.len() - 1 underflows
\* and col_pal[0] is out of bounds, the thread panics in every build.
RenderPanics(pal, nrows, ncols) == pal = << >> /\ nrows > 0 /\ ncols > 0

\* ------------------------------------------------------------------ state
\* Fractal fields: rows, cols, mid_pt, pt_div, max_its, pt_lt (left_lim and
\* top_lim are its two parts), escape_its, col_palette, image_filename (the
\* suffix of the resolved name, 0 for ""), active_palette_file.  The durations
\* are not modelled.  histogram_data_json is written and read inside one
\* histogram call only and is kept as the chart of that call's response.
VARIABLES
  rows, cols, mid_pt, pt_div, max_its, pt_lt,
  escape_its,
  col_palette,
  image_filename,
  active_palette_file,
  holder,      \* handler inside generate_fractal under the session mutex
  abort,       \* the panic that poisoned the session mutex, or "none"
  local_its,   \* generate_fractal: the Arc<Mutex<Vec>> escape_its
  row_state,   \* generate_fractal: position of each row task
  files,       \* fractal folder: suffixes of the image files present
  disk,        \* palette folder: content of each palette file
  img,         \* pixel buffer render_image built for the last request
  resp,        \* response to the last request, "none" while it is served
  generated,   \* history: a generate_fractal call has returned Ok
  renders      \* history: name and save outcome of every render_image call

vars == << rows, cols, mid_pt, pt_div, max_its, pt_lt, escape_its, col_palette,
           image_filename, active_palette_file, holder, abort, local_its,
           row_state, files, disk, img, resp, generated, renders >>

Response(op, ok) == [op |-> op, ok |-> ok, chart |-> NoHistogram]
NoResp == Response("none", FALSE)

Init ==
  /\ rows = 0 /\ cols = 0 /\ mid_pt = <<0, 0>> /\ pt_div = 0 /\ max_its = 0
  /\ pt_lt = <<0, 0>>
  /\ escape_its = << >>
  /\ col_palette = << >>
  /\ image_filename = 0
  /\ active_palette_file = ""
  /\ holder = "none"
  /\ abort = "none"
  /\ local_its = << >>
  /\ row_state = << >>
  /\ files \in { {}, {2} }
  /\ disk \in [PaletteNames -> {Missing, "p1"}]
  /\ img = << >>
  /\ resp = NoResp
  /\ generated = FALSE
  /\ renders = << >>

\* fractal.lock().unwrap() returns at once: no handler holds the session
\* mutex and no panic has poisoned it.
SessionFreeNoLock == abort = "none"

SessionFree == holder = "none" /\ abort = "none"

\* ---------------------------------------------------------- init_col_pallete
\* Outcome of init_col_pallete against the default palette file:
\* read error -> Err (palette kept), parse error -> panic, else rescaled.
PaletteReadFails == disk[def_palette] = Missing
PaletteParsePanics == disk[def_palette] = Malformed
init_col_pallete(maxits) ==
  IF PaletteReadFails \/ PaletteParsePanics
    THEN col_palette
    ELSE ScaledPalette(PaletteDefs[disk[def_palette]], maxits)

\* -------------------------------------------------------- generate_fractal
\* Entry of generate_fractal: the fresh Arc grid, one task per row.
StartGeneration(op, nrows, ncols) ==
  /\ local_its' = ZeroGrid(nrows, ncols)
  /\ row_state' = [r \in 0..(nrows - 1) |-> "todo"]
  /\ holder' = op

\* The handler dies in init_col_pallete (expect on the parse result): the
\* guard is dropped while panicking, the mutex is poisoned, no response.
DieInPalette ==
  /\ abort' = "deserialize"
  /\ UNCHANGED << local_its, row_state, holder >>

\* POST /generate up to the start of the row tasks.
GenerateBegin(v1, v2, v34, v5, v6) ==
  /\ SessionFree
  /\ Len(renders) < MaxRenders
  /\ rows' = UnwrapOr(v1, init_rows)
  /\ cols' = UnwrapOr(v2, init_cols)
  /\ mid_pt' = UnwrapOr(v34, init_mid_pt)
  /\ pt_div' = UnwrapOr(v5, init_pt_div)
  /\ max_its' = UnwrapOr(v6, init_max_its)
  /\ pt_lt' = init_fractal_limits(mid_pt', rows', cols', pt_div')
  /\ escape_its' = ZeroGrid(rows', cols')
  /\ col_palette' = init_col_pallete(max_its')
  /\ IF PaletteParsePanics
       THEN DieInPalette
       ELSE StartGeneration("generate", rows', cols') /\ UNCHANGED abort
  /\ img' = << >>
  /\ resp' = NoResp
  /\ UNCHANGED << image_filename, active_palette_file, files, disk,
                  generated, renders >>

\* recentre_fractal(c_row, c_col) up to generate_fractal: the limits are
\* set anew from mid_pt, the anchor is logged only.
RecentreLimitsAnchored(c_row, c_col, mid) ==
  init_fractal_limits(<< pt_lt[1] + c_col * pt_div, pt_lt[2] - c_row * pt_div >>,
                      rows, cols, pt_div)

RecentreLimits(c_row, c_col, mid) ==
  init_fractal_limits(mid, rows, cols, pt_div)

\* POST /recentre up to the start of the row tasks.
RecentreBegin(c_row, c_col, c) ==
  /\ SessionFree
  /\ Len(renders) < MaxRenders
  /\ mid_pt' = c
  /\ col_palette' = init_col_pallete(max_its)
  /\ IF PaletteParsePanics
       THEN DieInPalette /\ UNCHANGED << pt_lt, escape_its >>
       ELSE /\ pt_lt' = RecentreLimits(c_row, c_col, mid_pt')
            /\ escape_its' = ZeroGrid(rows, cols)
            /\ StartGeneration("recentre", rows, cols)
            /\ UNCHANGED abort
  /\ img' = << >>
  /\ resp' = NoResp
  /\ UNCHANGED << rows, cols, pt_div, max_its, image_filename,
                  active_palette_file, files, disk, generated, renders >>

Generating == holder \in {"generate", "recentre"}

\* A worker of the pool picks up the task of row r.
RowTaskStart(r) ==
  /\ Generating
  /\ r \in DOMAIN row_state
  /\ row_state[r] = "todo"
  /\ Cardinality({ q \in DOMAIN row_state : row_state[q] = "running" })
       < MaxWorkers
  /\ row_state' = [row_state EXCEPT ![r] = "running"]
  /\ UNCHANGED << rows, cols, mid_pt, pt_div, max_its, pt_lt, escape_its,
                  col_palette, image_filename, active_palette_file, holder,
                  abort, local_its, files, disk, img, resp, generated,
                  renders >>

\* Index at which the task of row r stores its row_data.
StoreIndexByCompletion(r) ==
  Cardinality({ q \in DOMAIN row_state : row_state[q] = "done" })

StoreIndex(r) == r

\* The task of row r computes row_data and stores it under the grid mutex.
RowTaskStore(r) ==
  /\ Generating
  /\ r \in DOMAIN row_state
  /\ row_state[r] = "running"
  /\ local_its' =
       [local_its EXCEPT ![StoreIndex(r)] =
          cal_row_divergence(RowStart(pt_lt, pt_div, r), cols, pt_div, max_its)]
  /\ row_state' = [row_state EXCEPT ![r] = "done"]
  /\ UNCHANGED << rows, cols, mid_pt, pt_div, max_its, pt_lt, escape_its,
                  col_palette, image_filename, active_palette_file, holder,
                  abort, files, disk, img, resp, generated, renders >>

\* into_par_iter().for_each returns: every row task has run to its end.
AllRowsStarted == \A r \in DOMAIN row_state : row_state[r] # "todo"

AllRowsDone == \A r \in DOMAIN row_state : row_state[r] = "done"

\* render_image on grid g; saved is the outcome of img.save.
render_image(g, saved) ==
  LET n == ProbeSuffix(1, files)
  IN  /\ img' = PixelBuffer(g, col_palette, rows, cols)
      /\ files' = IF saved THEN files \cup {n} ELSE files
      /\ image_filename' = n
      /\ renders' = Append(renders, [name |-> n, saved |-> saved])

\* The rest of generate_fractal after the parallel loop, and the response.
GenerateFinish(saved) ==
  /\ Generating
  /\ AllRowsDone
  /\ escape_its' = local_its
  /\ holder' = "none"
  /\ IF RenderPanics(col_palette, rows, cols)
       THEN /\ abort' = "det_px_col"
            /\ UNCHANGED << image_filename, files, img, resp, generated,
                            renders >>
       ELSE /\ render_image(local_its, saved)
            /\ generated' = TRUE
            /\ resp' = Response(holder, TRUE)
            /\ UNCHANGED abort
  /\ UNCHANGED << rows, cols, mid_pt, pt_div, max_its, pt_lt, col_palette,
                  active_palette_file, local_its, row_state, disk >>

\* POST /render.
Render(saved) ==
  /\ SessionFree
  /\ Len(renders) < MaxRenders
  /\ IF RenderPanics(col_palette, rows, cols)
       THEN /\ abort' = "det_px_col"
            /\ resp' = NoResp
            /\ UNCHANGED << image_filename, files, img, renders >>
       ELSE /\ render_image(escape_its, saved)
            /\ resp' = Response("render", TRUE)
            /\ UNCHANGED abort
  /\ UNCHANGED << rows, cols, mid_pt, pt_div, max_its, pt_lt, escape_its,
                  col_palette, active_palette_file, holder, local_its,
                  row_state, disk, generated >>

\* GET /histogram.
Histogram ==
  /\ SessionFree
  /\ resp' = [op |-> "histogram", ok |-> TRUE,
              chart |-> divergence_histogram(escape_its, rows, cols, max_its)]
  /\ UNCHANGED << rows, cols, mid_pt, pt_div, max_its, pt_lt, escape_its,
                  col_palette, image_filename, active_palette_file, holder,
                  abort, local_its, row_state, files, disk, img, generated,
                  renders >>

\* POST /palette with one file field: the file is created (truncated) and
\* written; outcome is "ok", "create" (File::create failed) or "write"
\* (write_all failed, the truncated file stays).
Palette(name, content, outcome) ==
  /\ SessionFree
  /\ disk' = CASE outcome = "ok"     -> [disk EXCEPT ![name] = content]
               [] outcome = "write"  -> [disk EXCEPT ![name] = Malformed]
               [] outcome = "create" -> disk
  /\ active_palette_file' = IF outcome = "ok" THEN name ELSE active_palette_file
  /\ resp' = Response("palette", (outcome = "ok"))
  /\ UNCHANGED << rows, cols, mid_pt, pt_div, max_its, pt_lt, escape_its,
                  col_palette, image_filename, holder, abort, local_its,
                  row_state, files, img, generated, renders >>

\* POST /palette without a file field: 400, nothing changes.
PaletteNoFile ==
  /\ SessionFree
  /\ resp' = Response("palette", FALSE)
  /\ UNCHANGED << rows, cols, mid_pt, pt_div, max_its, pt_lt, escape_its,
                  col_palette, image_filename, active_palette_file, holder,
                  abort, local_its, row_state, files, disk, img, generated,
                  renders >>

\* Any handler once the mutex is poisoned: fractal.lock().unwrap() panics,
\* the request gets no response from the handler.
LockPoisoned ==
  /\ holder = "none"
  /\ abort # "none"
  /\ resp' = Response("panicked", FALSE)
  /\ UNCHANGED << rows, cols, mid_pt, pt_div, max_its, pt_lt, escape_its,
                  col_palette, image_filename, active_palette_file, holder,
                  abort, local_its, row_state, files, disk, img, generated,
                  renders >>

Next ==
  \/ \E v1 \in OptionOf(0..MaxRows), v2 \in OptionOf(1..MaxCols),
        v34 \in OptionOf(CentreInputs), v5 \in OptionOf(PitchInputs),
        v6 \in OptionOf(0..MaxIts) : GenerateBegin(v1, v2, v34, v5, v6)
  \/ \E c_row \in HintInputs, c_col \in HintInputs, c \in CentreInputs :
        RecentreBegin(c_row, c_col, c)
  \/ \E r \in 0..Max(MaxRows, init_rows) : RowTaskStart(r)
  \/ \E r \in 0..Max(MaxRows, init_rows) : RowTaskStore(r)
  \/ \E saved \in BOOLEAN : GenerateFinish(saved)
  \/ \E saved \in BOOLEAN : Render(saved)
  \/ Histogram
  \/ \E up \in Uploads, outcome \in {"ok", "create", "write"} :
        Palette(up[1], up[2], outcome)
  \/ PaletteNoFile
  \/ LockPoisoned

Spec == Init /\ [][Next]_vars

\* ============================================================= properties
FarCentre == <<240, 0>>
GenerationOps == {"generate", "recentre"}

\* The grid the current viewport determines, row r at index r.
ExpectedRow(r) ==
  cal_row_divergence(RowStart(pt_lt, pt_div, r), cols, pt_div, max_its)
ExpectedGrid == [r \in 0..(rows - 1) |-> ExpectedRow(r)]

\* The last completed handler was a generation and nothing ran since.
JustGenerated == SessionFree /\ resp.op \in GenerationOps
JustRendered == SessionFree /\ resp.op = "render"
JustHistogram == SessionFree /\ resp.op = "histogram"

\* C1 (as claimed): the histogram returned for a generated grid counts every
\* cell: the counts add up to rows * cols.
C1_HistogramTotal ==
  (JustHistogram /\ generated) =>
     SumSeq(resp.chart.counts) = rows * cols

\* C2 (as claimed): histogram() before any generation has completed answers
\* with the NotGenerated failure, not with a series.
C2_HistogramNotGenerated ==
  (resp.op = "histogram" /\ ~generated) => ~resp.ok

\* C3 (as claimed): a recentre that completes while no generation has ever
\* completed before it answers with a failure.
C3_RecentreFirstFails ==
  [][(holder = "recentre" /\ ~generated /\ holder' = "none" /\ abort' = "none")
       => ~resp'.ok]_vars

SortedPalette(pal) ==
  \A i \in 1..(Len(pal) - 1) : pal[i].bound <= pal[i + 1].bound

\* C5 (as claimed): the colour of the boundary of every entry of a sorted
\* palette of two or more entries is that entry's colour.
C5_RoundTripAll ==
  (Len(col_palette) >= 2 /\ SortedPalette(col_palette)) =>
     \A i \in DOMAIN col_palette :
        det_px_col(col_palette[i].bound, col_palette) = col_palette[i].color

\* C5 (amended): the colour of the boundary of an entry is that entry's
\* colour for every entry after the first whose boundary is strictly above
\* the boundary of the entry before it.
C5_RoundTripStrict ==
  (Len(col_palette) >= 2 /\ SortedPalette(col_palette)) =>
     \A i \in 2..Len(col_palette) :
        col_palette[i].bound > col_palette[i - 1].bound =>
           det_px_col(col_palette[i].bound, col_palette) = col_palette[i].color

\* A rendered pixel whose cell value sits on the boundary of the last entry
\* of a three-entry palette with distinct boundaries.
C5_Witness ==
  /\ JustGenerated
  /\ Len(col_palette) = 3
  /\ col_palette[3].bound > col_palette[2].bound
  /\ col_palette[2].bound > col_palette[1].bound
  /\ \E xy \in Cells(rows, cols) :
        /\ escape_its[xy[1]][xy[2]] = col_palette[3].bound
        /\ img[xy[1]][xy[2]] = col_palette[3].color

\* C6: every cell value the engine stores is within 0..max_its.
C6_CellRange ==
  /\ \A r \in DOMAIN escape_its : \A c \in DOMAIN escape_its[r] :
        escape_its[r][c] >= 0 /\ escape_its[r][c] <= max_its
  /\ Generating =>
       \A r \in DOMAIN local_its : \A c \in DOMAIN local_its[r] :
          local_its[r][c] >= 0 /\ local_its[r][c] <= max_its

\* Generations at both ends: a bounded point whose mu is cut to max_its and
\* points so far out that mu is negative before the conversion to u32.
C6_Witness ==
  /\ JustGenerated
  /\ rows > 0 /\ cols > 0 /\ max_its >= 2
  /\ mid_pt = FarCentre
  /\ \A xy \in Cells(rows, cols) : escape_its[xy[1]][xy[2]] = 0

\* C7: whatever the order in which the row tasks run and finish, the row
\* stored at index r is the row computed for r, and the grid a generation
\* leaves is the one its viewport determines.
C7_RowIndexPreserved ==
  /\ Generating =>
       \A r \in DOMAIN row_state :
          IF row_state[r] = "done"
            THEN local_its[r] = ExpectedRow(r)
            ELSE local_its[r] = [c \in 0..(cols - 1) |-> 0]
  /\ JustGenerated => escape_its = ExpectedGrid

\* Row 1 has been stored while row 0 is still being computed.
C7_Witness ==
  /\ Generating
  /\ rows = 2
  /\ row_state[1] = "done" /\ row_state[0] = "running"
  /\ local_its[1] # local_its[0]

\* C8: while the escape-time computation runs, pt_lt is the top-left point
\* of the current centre, pitch and size.
C8_LimitsCurrent ==
  Generating =>
     /\ 2 * pt_lt[1] = 2 * mid_pt[1] - cols * pt_div
     /\ 2 * pt_lt[2] = 2 * mid_pt[2] + rows * pt_div

\* A recentre to another centre on a grid with an odd number of columns.
C8_Witness ==
  /\ holder = "recentre"
  /\ mid_pt = FarCentre
  /\ cols = 1 /\ rows = 2
  /\ generated

\* The palette that /palette made active, scaled to the current max_its.
ActivePalette == ScaledPalette(PaletteDefs[disk[active_palette_file]], max_its)

\* C9 (as claimed): a render() after /palette accepted a palette colours the
\* grid with that palette.
C9_RenderUsesActivePalette ==
  (JustRendered /\ resp.ok /\ active_palette_file # ""
     /\ disk[active_palette_file] \in PaletteIds) =>
       img = PixelBuffer(escape_its, ActivePalette, rows, cols)

\* C10 (as claimed): a palette definition that does not parse never makes
\* the handler panic, so the session mutex is never poisoned by it and later
\* requests are served.
C10_NoPanicOnBadPalette ==
  abort # "deserialize"

\* C11 (as claimed): after a render_image call whose image write failed the
\* session's image reference is what it was before, so whenever it names an
\* image that image is a file of the fractal folder.
C11_ImageReferenceExists ==
  image_filename # 0 => image_filename \in files

\* C12 (as claimed): det_px_col returns a colour for every cell value and
\* every palette, the empty palette left by an unreadable palette file
\* included: no handler dies colouring a pixel.
C12_ColorForNeverAborts ==
  abort # "det_px_col"

\* What the handlers read and write of the session, the Arc grid and the
\* row tasks of a running generation aside.
session == << rows, cols, mid_pt, pt_div, max_its, pt_lt, escape_its,
              col_palette, image_filename, active_palette_file, files, disk,
              img, resp, generated, renders, abort >>

\* C13: while a generate or recentre handler holds the session mutex every
\* step is a step of that handler: a row task of its generation moving on
\* (no stored row is lost, nothing of the session is read into a response or
\* written), or its own end once all its rows are stored.  No render,
\* histogram or palette request is served meanwhile and no second generation
\* starts.
C13_MutualExclusion ==
  [][ Generating =>
        \/ /\ holder' = holder
           /\ UNCHANGED session
           /\ DOMAIN row_state' = DOMAIN row_state
           /\ \A r \in DOMAIN row_state :
                 row_state[r] = "done" =>
                    row_state'[r] = "done" /\ local_its'[r] = local_its[r]
        \/ /\ holder' = "none"
           /\ \A r \in DOMAIN row_state : row_state[r] = "done"
           /\ escape_its' = local_its ]_vars

\* A recentre is replacing the grid of an earlier generation: one row is
\* stored, another is not, and the session grid is not the new one yet.
C13_Witness ==
  /\ holder = "recentre"
  /\ generated
  /\ \E r \in DOMAIN row_state : row_state[r] = "done"
  /\ \E r \in DOMAIN row_state : row_state[r] # "done"
  /\ resp = NoResp

\* C14: render_image is entered by a generation only when every row task of
\* that generation has stored its row, and the image it builds is the image
\* of the whole grid of the viewport.
C14_RenderAfterAllRows ==
  [][ (Generating /\ Len(renders') > Len(renders)) =>
        /\ \A r \in DOMAIN row_state : row_state[r] = "done"
        /\ escape_its' = ExpectedGrid
        /\ img' = PixelBuffer(ExpectedGrid, col_palette, rows, cols) ]_vars

\* A generation of two rows whose rows both hold a cell that is not the 0
\* the grid was filled with, rendered.
C14_Witness ==
  /\ JustGenerated
  /\ rows = 2
  /\ \A r \in 0..1 : \E c \in 0..(cols - 1) : escape_its[r][c] # 0
  /\ img = PixelBuffer(escape_its, col_palette, rows, cols)
  /\ Len(renders) > 0

\* rel * maxits rounded to the nearest integer, halves upwards.
RoundBound(rel, maxits) == (2 * rel * maxits + RelDen) \div (2 * RelDen)

\* C15 (as claimed): in a generation that read the palette file, the
\* boundary of every palette entry is its relative position times max_its,
\* rounded to the nearest integer.
C15_BoundaryRounded ==
  (Generating /\ disk[def_palette] \in PaletteIds) =>
     \A i \in DOMAIN col_palette :
        col_palette[i].bound = RoundBound(col_palette[i].rel, max_its)

\* Number of cells of the stored grid that hold v, counted row by row.
CellsEqual(v) ==
  SumSeq([r \in 1..rows |->
            Cardinality({ c \in DOMAIN escape_its[r - 1] :
                            escape_its[r - 1][c] = v })])

CutAt(raw) ==
  CHOOSE i \in 1..(Len(raw) + 1) :
     /\ \A j \in (i + 1)..Len(raw) : raw[j] # "."
     /\ IF i <= Len(raw) THEN raw[i] = "."
                         ELSE \A j \in DOMAIN raw : raw[j] # "."
Stem(raw) == SubSeq(raw, 1, CutAt(raw) - 1)
Ext(raw) == SubSeq(raw, CutAt(raw), Len(raw))
ThreeDigits(n) ==
  << Digit((n \div 100) % 10), Digit((n \div 10) % 10), Digit(n % 10) >>

\* C17: the name a render_image call resolves is stem-NNN.ext for the least
\* n >= 1 whose name is not in the fractal folder when the call probes it:
\* every smaller n names a file that is there.  Stem and ext are the parts
\* of fractal_filename before and from its last '.', NNN is n in three
\* digits.
C17_ResolvedName ==
  [][ Len(renders') > Len(renders) =>
        LET n == image_filename'
        IN  /\ n >= 1
            /\ \A raw \in RawNames :
                  LET dir == { FormatName(raw, m) : m \in files }
                  IN  /\ FormatName(raw, n) \notin dir
                      /\ \A k \in 1..(n - 1) : FormatName(raw, k) \in dir
                      /\ FormatName(raw, n) =
                           Stem(raw) \o << "-" >> \o ThreeDigits(n) \o Ext(raw)
    ]_vars

\* Two renders into a folder that held file 002 only: the first resolves
\* 001, the second finds 001 and 002 and resolves 003.
C17_Witness ==
  /\ Len(renders) = 2
  /\ renders[1].name = 1 /\ renders[1].saved
  /\ renders[2].name = 3 /\ renders[2].saved
  /\ files = {1, 2, 3}
  /\ image_filename = 3

\* Top-left point of a viewport, from its centre, size and pitch.
TopLeft(mid, nrows, ncols, pitch) ==
  << (2 * mid[1] - ncols * pitch) \div 2, (2 * mid[2] + nrows * pitch) \div 2 >>

\* C18: a recentre that follows a generation takes the centre of the request
\* and leaves rows, cols, pitch and max_its as they are in every step it
\* takes; its top-left point is that of the new centre, and the grid it
\* ends with holds, in each cell (row, col), the escape value of the point
\* top-left + (col * pitch, -row * pitch), whatever anchor the request names.
C18_RecentreFrame ==
  [][ generated =>
        /\ (holder = "recentre" \/ holder' = "recentre") =>
              /\ UNCHANGED << rows, cols, pt_div, max_its >>
              /\ mid_pt' \in CentreInputs
              /\ pt_lt' = TopLeft(mid_pt', rows, cols, pt_div)
        /\ (holder = "recentre" /\ holder' = "none") =>
              /\ mid_pt' = mid_pt
              /\ DOMAIN escape_its' = 0..(rows - 1)
              /\ \A r \in 0..(rows - 1) :
                    /\ DOMAIN escape_its'[r] = 0..(cols - 1)
                    /\ \A c \in 0..(cols - 1) :
                          escape_its'[r][c] =
                            PixelDivergence(<< pt_lt'[1] + c * pt_div,
                                               pt_lt'[2] - r * pt_div >>,
                                            max_its) ]_vars

\* A recentre has ended on the two-row grid of an earlier generation (only
\* a generation sets rows), at the far centre, with the grid of that centre.
C18_Witness ==
  /\ SessionFree
  /\ resp.op = "recentre" /\ resp.ok
  /\ rows = 2 /\ cols = 2 /\ max_its = init_max_its
  /\ mid_pt = FarCentre
  /\ pt_lt = << 232, 8 >>
  /\ escape_its = ZeroGrid(2, 2)
  /\ Len(renders) = 2

\* C19: whenever no handler holds the session mutex the stored grid has
\* rows rows of cols cells each, and whenever the session can serve a
\* request the grid is the grid of the current viewport: each cell holds the
\* escape value of its point for the current centre, pitch and max_its.
C19_GridMatchesViewport ==
  /\ holder = "none" =>
        /\ DOMAIN escape_its = 0..(rows - 1)
        /\ \A r \in 0..(rows - 1) : DOMAIN escape_its[r] = 0..(cols - 1)
  /\ SessionFree =>
        LET tl == TopLeft(mid_pt, rows, cols, pt_div)
        IN  \A xy \in Cells(rows, cols) :
               escape_its[xy[1]][xy[2]] =
                 PixelDivergence(<< tl[1] + xy[2] * pt_div,
                                    tl[2] - xy[1] * pt_div >>, max_its)

\* A render has read every cell of a generated grid of two rows and one
\* column that holds a value other than the 0 of a fresh grid.
C19_Witness ==
  /\ JustRendered
  /\ generated
  /\ rows = 2 /\ cols = 1
  /\ \E xy \in Cells(rows, cols) : escape_its[xy[1]][xy[2]] # 0
  /\ DOMAIN img = 0..1
  /\ \A y \in 0..1 : DOMAIN img[y] = 0..0

====
